---- MODULE Spec2Model ----
(***************************************************************************)
(* Model of package dynbufio (src/unnamed/part_001, lines 219-422): a      *)
(* BufferPool of doubling-size free lists of bufio writers and readers,    *)
(* the DynamicBufWriter that swaps its bufio.Writer for the next larger or *)
(* smaller one on Write and Flush, and the DynamicBufReader that does the  *)
(* same on Read.  The bufio.Writer and bufio.Reader the package calls are  *)
(* modelled by what they do (buffer, sticky error, direct writes and       *)
(* reads of large slices, Reset).                                          *)
(*                                                                         *)
(* Bytes are numbers.  The k-th byte a caller hands to Write has value k,  *)
(* so a lost, duplicated or reordered byte shows in the sink's content.    *)
(***************************************************************************)
EXTENDS Integers, Sequences, FiniteSets, TLC

\* ------------------------------------------------------------------ bounds

\* Total number of bytes the caller gets accepted by the writer in a run.
MaxData == 4

\* Largest len(p) of one Write call.
MaxLen == 5

\* Largest number of idle buffers one free list keeps; sync.Pool may drop
\* any buffer put into it, and the model drops a put into a full list.
MaxFree == 1

\* Largest number of sink writes that fail in a run.
MaxFails == 1

\* The source's stream is the bytes 0, 1, ..., ByteMod-1, 0, 1, ... (the tests
\* fill their data with a repeating pattern in the same way).
ByteMod == 3

\* Largest number of deadline expiries the source reports within one Read;
\* each one makes Read call itself again.
MaxChain == 2

\* ------------------------------------------------------------ program text

minWriteBufferSize == 1024

\* bufio's smallest reader buffer: bufio.NewReaderSize raises a smaller size to it.
minReadBufferSize == 16

Nil == "nil"
ErrFailingWrite == "write on failing writer"
ErrFailingRead == "read on failing writer"
ErrSink == "sink error"
EOF == "EOF"
ErrDeadlineExceeded == "os.ErrDeadlineExceeded"
ErrSource == "source error"

\* The endpoints a bufio buffer can be bound to.
failingReadWriter == "failingReadWriter"
TheSink == "w"
TheSource == "r"

NoBuf == [size |-> 0]

Min(a, b) == IF a < b THEN a ELSE b

\* The one element of a one-element set.  Val({F(v) : v \in {e}}) is F(e) with
\* e evaluated once, where a LET definition is evaluated at each of its uses.
Val(S) == CHOOSE v \in S : TRUE

Range(a, b) == [i \in 1..(b - a + 1) |-> a + i - 1]

Drop(s, n) == SubSeq(s, n + 1, Len(s))

Take(s, n) == SubSeq(s, 1, n)

\* (minSize, maxSize) arguments of NewPool the runs start from.
PoolArgs == {<<1, 3>>, <<1, 2>>, <<2, 1>>}

\* The same for the runs of a reader.
RPoolArgs == {<<4, 32>>, <<16, 32>>}

\* len(p) of the Read calls, and the byte counts the source returns.
PLens == {8, 16}

Fills == {1, 8, 16, 32}

\* The int of the build, at the scale of the model: IntWidth bits, two's
\* complement.  The default minimum, 1024, fits.
IntWidth == 12

MaxInt == 2^(IntWidth - 1) - 1

\* x << 1 on an int: the bits that leave the width are lost.
ShiftLeft1(x) ==
    LET y == (2 * x) % (2^IntWidth)
    IN IF y > MaxInt THEN y - 2^IntWidth ELSE y

\* The loop of NewPool.  hangs: minSize has reached 0 below maxSize, where
\* the shift leaves it, and the loop appends without end.
RECURSIVE SizesLoop(_, _, _)
SizesLoop(minSize, maxSize, sizes) ==
    IF minSize < maxSize
    THEN IF ShiftLeft1(minSize) = minSize
         THEN [sizes |-> sizes, hangs |-> TRUE]
         ELSE SizesLoop(ShiftLeft1(minSize), maxSize,
                        Append(sizes, ShiftLeft1(minSize)))
    ELSE [sizes |-> sizes, hangs |-> FALSE]

\* A NewPool that raises every minSize below the default to the default.
NormalMinSizeAtLeastDefault(minSize) ==
    IF minSize < minWriteBufferSize THEN minWriteBufferSize ELSE minSize

\* The minSize NewPool starts the ladder from.
NormalMinSize(minSize) == IF minSize <= 0 THEN minWriteBufferSize ELSE minSize

\* NewPool: the ladder of sizes, as a sequence (slot i is element i+1).
NewPoolSizes(minSize, maxSize) ==
    SizesLoop(NormalMinSize(minSize), maxSize, <<NormalMinSize(minSize)>>).sizes

\* NewPool never returns.
NewPoolHangs(minSize, maxSize) ==
    SizesLoop(NormalMinSize(minSize), maxSize, <<NormalMinSize(minSize)>>).hangs

VARIABLES
    sizes,        \* size captured by the New closure of slot i (function on 0..maxIdx)
    maxIdx,       \* BufferPool.maxIdx
    poolArgs,     \* the (minSize, maxSize) NewPool was called with
    built,        \* "no": NewPool is still to run; "yes": it has returned the
                  \* pool; "never": it does not return
    writerPools,  \* BufferPool.writerPools: slot -> set of addresses of idle *bufio.Writer
    wbufs,        \* the *bufio.Writer objects: address -> [size, buf, err, wr], NoBuf if none
    dbw,          \* DynamicBufWriter: [buf (address), poolIdx]
    sink,         \* the bytes the sink w has received
    sinkKind,     \* "mem": an in-memory sink that never fails; "flaky": Write may fail
    fails,        \* how many writes the sink has failed
    accepted,     \* history: the bytes Write has reported written, in order
    lastW,        \* history: the last writer call, the slot it started at, and the
                  \* largest len(p) since the previous Flush
    wpc,          \* where the writer is: "idle" between calls, "get" between the
                  \* Put and the Get of a grow or shrink, "closed" once its
                  \* connection has closed
    readerPools,  \* BufferPool.readerPools: slot -> set of addresses of idle *bufio.Reader
    rbufs,        \* the *bufio.Reader objects: address -> [size, data, err, rd], NoBuf if none
    dbr,          \* DynamicBufReader: [buf (address), poolIdx]
    srcPos,       \* the value of the next byte the source r delivers
    isConn,       \* whether r is a net.Conn (has SetReadDeadline)
    armed,        \* whether a read deadline is set on the connection
    lastR,        \* history: the last reader call, the slot it started at, what r did
    rpc,          \* where the reader is: "idle" or "get", as wpc
    cur,          \* the wrapper whose fields dbw .. lastW, dbr .. rpc are above
    parked,       \* the fields of the other wrappers that share the pool
    ioLast        \* history: the last call of an ioErrorWrappingWriter, what the
                  \* writer it wraps returned and what it returned

pvars == <<sizes, maxIdx, poolArgs, built>>

wvars == <<writerPools, wbufs, dbw, sink, sinkKind, fails, accepted, lastW, wpc>>

rvars == <<readerPools, rbufs, dbr, srcPos, isConn, armed, lastR, rpc>>

svars == <<cur, parked>>

ivars == <<ioLast>>

vars == <<pvars, wvars, rvars, svars, ivars>>

\* ------------------------------------------------------------ bufio.Writer

\* bufio.NewWriterSize(failingReadWriter, size)
NewWriterSize(size) ==
    [size |-> size, buf |-> <<>>, err |-> Nil, wr |-> failingReadWriter]

\* A Reset that rebinds the writer and keeps what it holds.
WriterResetKeepsData(b, w) == [b EXCEPT !.wr = w]

\* (*bufio.Writer).Reset(w)
WriterReset(b, w) == [b EXCEPT !.buf = <<>>, !.err = Nil, !.wr = w]

Available(b) == b.size - Len(b.buf)

Buffered(b) == Len(b.buf)

\* One call of the bound endpoint's Write(data).  oc is what the sink does with
\* it: oc < 0 takes all of data, oc = k >= 0 takes k bytes (fewer than offered)
\* and fails.  The stub endpoint takes nothing and fails.
EndpointWrite(wr, data, oc) ==
    IF wr = failingReadWriter
    THEN [n |-> 0, err |-> ErrFailingWrite, out |-> <<>>]
    ELSE IF oc >= 0 /\ Len(data) > 0
         THEN LET k == Min(oc, Len(data) - 1)
              IN [n |-> k, err |-> ErrSink, out |-> Take(data, k)]
         ELSE [n |-> Len(data), err |-> Nil, out |-> data]

\* (*bufio.Writer).Flush
BufFlush(b, snk, oc) ==
    IF b.err # Nil THEN [b |-> b, sink |-> snk, err |-> b.err]
    ELSE IF Len(b.buf) = 0 THEN [b |-> b, sink |-> snk, err |-> Nil]
    ELSE LET r == EndpointWrite(b.wr, b.buf, oc)
         IN IF r.err # Nil
            THEN [b |-> [b EXCEPT !.buf = Drop(b.buf, r.n), !.err = r.err],
                  sink |-> snk \o r.out, err |-> r.err]
            ELSE [b |-> [b EXCEPT !.buf = <<>>], sink |-> snk \o r.out, err |-> Nil]

\* (*bufio.Writer).Write: the loop that drains p while it does not fit, then
\* the copy of the rest.  ocs are the outcomes of the endpoint writes it makes.
RECURSIVE BufWrite(_, _, _, _, _)
BufWrite(b, snk, p, nn, ocs) ==
    IF Len(p) > Available(b) /\ b.err = Nil
    THEN IF Buffered(b) = 0
         THEN LET r == EndpointWrite(b.wr, p, Head(ocs))
              IN BufWrite([b EXCEPT !.err = r.err], snk \o r.out,
                          Drop(p, r.n), nn + r.n, Tail(ocs))
         ELSE LET n == Available(b)
                  f == BufFlush([b EXCEPT !.buf = b.buf \o Take(p, n)], snk, Head(ocs))
              IN BufWrite(f.b, f.sink, Drop(p, n), nn + n, Tail(ocs))
    ELSE IF b.err # Nil
         THEN [b |-> b, sink |-> snk, n |-> nn, err |-> b.err]
         ELSE [b |-> [b EXCEPT !.buf = b.buf \o p], sink |-> snk,
               n |-> nn + Len(p), err |-> Nil]

\* ------------------------------------------------------------- sync.Pool

\* The wrappers that may share a pool.
Wrappers == {1, 2}

\* Addresses of buffer objects.  A buffer made by slot i's New is <<i, k>>; the
\* slot needs at most MaxFree idle ones and one in use per wrapper.
MaxSlots == Len(NewPoolSizes(4, 32))

MaxPerSlot == MaxFree + Cardinality(Wrappers)

Addrs == (0..(MaxSlots - 1)) \X (1..MaxPerSlot)

\* sync.Pool.Put: the buffer joins the free list, or is dropped: always when
\* the list is full, and whenever the runtime chooses to (drop).  st is a
\* record with fields heap and pools (and more).
PoolPut(st, i, a, drop) ==
    IF drop \/ Cardinality(st.pools[i]) >= MaxFree
    THEN [st EXCEPT !.heap[a] = NoBuf]
    ELSE [st EXCEPT !.pools[i] = @ \cup {a}]

\* What sync.Pool.Get may hand out: any idle buffer of the slot, or a new one
\* (NewBuf) made by the slot's New.
NewBuf == <<0, 0>>

GetChoices(st, i) == st.pools[i] \cup {NewBuf}

\* A Get that hands out an idle buffer and leaves it in the free list.
PoolGetKeepsIdle(st, i, g, fresh) ==
    IF g = NewBuf
    THEN LET free == {k \in 1..MaxPerSlot : st.heap[<<i, k>>] = NoBuf}
             a == <<i, CHOOSE k \in free : \A y \in free : k <= y>>
         IN [st EXCEPT !.heap[a] = fresh, !.got = a]
    ELSE [st EXCEPT !.got = g]

\* sync.Pool.Get with choice g; the result's field got is the address.
PoolGet(st, i, g, fresh) ==
    IF g = NewBuf
    THEN LET free == {k \in 1..MaxPerSlot : st.heap[<<i, k>>] = NoBuf}
             a == <<i, CHOOSE k \in free : \A y \in free : k <= y>>
         IN [st EXCEPT !.heap[a] = fresh, !.got = a]
    ELSE [st EXCEPT !.pools[i] = @ \ {g}, !.got = g]

\* ------------------------------------------------------ DynamicBufWriter

\* The writer's view of the state, as the record grow and shrink work on; ok
\* tells whether the pool can make the choice asked of it.  A choice
\* c = <<drop, g>> is what the pool does in a migration: whether Put drops
\* the buffer, and what Get hands out.
WState == [heap |-> wbufs, pools |-> writerPools, buf |-> dbw.buf,
           poolIdx |-> dbw.poolIdx, got |-> NewBuf, ok |-> TRUE, moved |-> FALSE,
           pending |-> FALSE]

\* The choice of Get that stands for no Get yet: other wrappers run between
\* the Put and the Get of the migration.
Later == <<-1, 0>>

\* Put the current buffer back to slot poolIdx and take one from slot j.
WMigrate(st, j, c) ==
    LET s1 == [st EXCEPT !.heap[st.buf] = WriterReset(@, failingReadWriter)]
        s2 == PoolPut(s1, st.poolIdx, st.buf, c[1])
        s3 == [s2 EXCEPT !.poolIdx = j]
    IN IF c[2] = Later THEN [s3 EXCEPT !.moved = TRUE, !.pending = TRUE]
       ELSE IF c[2] \notin GetChoices(s3, j) THEN [st EXCEPT !.ok = FALSE]
       ELSE Val({[s4 EXCEPT !.buf = s4.got, !.moved = TRUE,
                            !.heap[s4.got] = WriterReset(@, TheSink)] :
                 s4 \in {PoolGet(s3, j, c[2], NewWriterSize(sizes[j]))}})

\* A grow that migrates at the top slot too, to the top slot.
WgrowAtTop(st, c) ==
    WMigrate(st, IF st.poolIdx < maxIdx THEN st.poolIdx + 1 ELSE maxIdx, c)

\* (*DynamicBufWriter).grow
Wgrow(st, c) ==
    IF st.poolIdx < maxIdx THEN WMigrate(st, st.poolIdx + 1, c) ELSE st

\* A shrink that goes down to the smallest slot at once.
WshrinkToBottom(st, c) ==
    IF st.poolIdx # 0 THEN WMigrate(st, 0, c) ELSE st

\* (*DynamicBufWriter).shrink
Wshrink(st, c) ==
    IF st.poolIdx # 0 THEN WMigrate(st, st.poolIdx - 1, c) ELSE st

\* What the sink does with the endpoint writes of one call: <<-1, -1>> takes
\* them all; <<i, k>> fails the i-th of them after k bytes.
NoFail == <<-1, -1>>

Outcomes ==
    IF sinkKind = "mem" \/ fails >= MaxFails THEN {NoFail}
    ELSE {NoFail} \cup ({1, 2} \X {0, 1})

OutcomeOf(oc, i) == IF oc[1] = i THEN oc[2] ELSE -1

\* What the pool may do in one migration.
NoChoice == <<FALSE, NewBuf>>

PoolChoices ==
    BOOLEAN \X (UNION {writerPools[i] : i \in DOMAIN writerPools} \cup {dbw.buf, NewBuf})

\* History: the largest len(p) of the Writes since the previous Flush, this call
\* included; 0 if there was none.
Window(op, len) ==
    LET before == IF lastW.op = "Flush" THEN 0 ELSE lastW.win
    IN IF op = "Write" /\ len > before THEN len ELSE before

\* What the history records of a call: the operation, its argument and
\* results, and the slot the wrapper was at when it started.
Call(op, len, n, err) ==
    [op |-> op, len |-> len, n |-> n, err |-> err, idx0 |-> dbw.poolIdx,
     win |-> Window(op, len)]

\* The pool is asked for a choice only when a buffer is taken from it.
WCommit(st, c) ==
    /\ st.ok
    /\ st.moved \/ c = NoChoice
    /\ wbufs' = st.heap
    /\ writerPools' = st.pools
    /\ dbw' = [buf |-> st.buf, poolIdx |-> st.poolIdx]
    /\ wpc' = IF st.pending THEN "get" ELSE "idle"

\* The second half of a grow or shrink that other wrappers ran in the middle
\* of: dbw.buf = writerPools[dbw.poolIdx].Get(); dbw.buf.Reset(dbw.w)
WMigrateGet(g) ==
    /\ wpc = "get"
    /\ g \in GetChoices(WState, dbw.poolIdx)
    /\ \E s4 \in {PoolGet(WState, dbw.poolIdx, g, NewWriterSize(sizes[dbw.poolIdx]))} :
          /\ wbufs' = [s4.heap EXCEPT ![s4.got] = WriterReset(@, TheSink)]
          /\ writerPools' = s4.pools
          /\ dbw' = [buf |-> s4.got, poolIdx |-> dbw.poolIdx]
    /\ wpc' = "idle"
    /\ UNCHANGED <<ivars, pvars, rvars, svars, sink, sinkKind, fails, accepted, lastW>>

\* Write's test before the inner write: len(p) > dbw.buf.Available()
WriteShouldGrowOffByOne(len, b) == len >= Available(b)

WriteShouldGrow(len, b) == len > Available(b)

\* (*DynamicBufWriter).Write(p), p the next len bytes of the caller's data
Write(len, oc, c) ==
    LET p == Range(Len(accepted) + 1, Len(accepted) + len)
        shouldGrow == WriteShouldGrow(len, wbufs[dbw.buf])
    IN /\ Len(accepted) + len <= MaxData
       /\ \E r \in {BufWrite(wbufs[dbw.buf], sink, p, 0,
                              <<OutcomeOf(oc, 1), OutcomeOf(oc, 2)>>)} :
          \E st1 \in {[WState EXCEPT !.heap[dbw.buf] = r.b]} :
          \E st2 \in {IF shouldGrow THEN Wgrow(st1, c) ELSE st1} :
             /\ WCommit(st2, c)
             /\ sink' = r.sink
             /\ accepted' = accepted \o Take(p, r.n)
             /\ lastW' = Call("Write", len, r.n, r.err)
             /\ fails' = IF r.err = ErrSink /\ wbufs[dbw.buf].err = Nil
                         THEN fails + 1 ELSE fails
       /\ UNCHANGED <<ivars, pvars, rvars, svars, sinkKind>>

\* Flush's tests before the inner flush
FlushShouldGrow(buffered, size, poolIdx) == buffered = size /\ poolIdx < maxIdx

FlushShouldShrinkAtHalf(buffered, size, poolIdx) ==
    ~FlushShouldGrow(buffered, size, poolIdx) /\ buffered <= size \div 2

FlushShouldShrink(buffered, size, poolIdx) ==
    ~FlushShouldGrow(buffered, size, poolIdx) /\ buffered < size \div 2

\* Flush after the inner flush returned err: the early return, else the migration
FlushMigrateDespiteError(st, err, shouldGrow, shouldShrink, c) ==
    IF shouldGrow THEN Wgrow(st, c)
    ELSE IF shouldShrink THEN Wshrink(st, c)
    ELSE st

FlushMigrate(st, err, shouldGrow, shouldShrink, c) ==
    IF err # Nil THEN st
    ELSE IF shouldGrow THEN Wgrow(st, c)
    ELSE IF shouldShrink THEN Wshrink(st, c)
    ELSE st

\* (*DynamicBufWriter).Flush
Flush(oc, c) ==
    LET b == wbufs[dbw.buf]
        buffered == Buffered(b)
        size == b.size
        shouldGrow == FlushShouldGrow(buffered, size, dbw.poolIdx)
        shouldShrink == FlushShouldShrink(buffered, size, dbw.poolIdx)
    IN /\ \E f \in {BufFlush(b, sink, OutcomeOf(oc, 1))} :
          \E st1 \in {[WState EXCEPT !.heap[dbw.buf] = f.b]} :
          \E st2 \in {FlushMigrate(st1, f.err, shouldGrow, shouldShrink, c)} :
             /\ WCommit(st2, c)
             /\ sink' = f.sink
             /\ lastW' = Call("Flush", 0, 0, f.err)
             /\ fails' = IF f.err = ErrSink /\ b.err = Nil THEN fails + 1 ELSE fails
       /\ UNCHANGED <<ivars, pvars, rvars, svars, sinkKind, accepted>>

\* ------------------------------------------------------------ bufio.Reader

\* bufio.NewReaderSize(failingReadWriter, size)
NewReaderSize(size) ==
    [size |-> IF size < minReadBufferSize THEN minReadBufferSize ELSE size,
     data |-> <<>>, err |-> Nil, rd |-> failingReadWriter]

\* (*bufio.Reader).Reset(r)
ReaderReset(b, r) == [b EXCEPT !.data = <<>>, !.err = Nil, !.rd = r]

RBuffered(b) == Len(b.data)

\* The n bytes of the source's stream from position pos.
Stream(pos, n) == [i \in 1..n |-> (pos + i - 1) % ByteMod]

\* One call of the bound endpoint's Read into a slice of length cap.  oc is
\* what the source does: [n, err].  fits tells whether the source can do that
\* (n <= cap).  The stub endpoint reads nothing and fails.
EndpointRead(rd, cap, oc, pos) ==
    IF rd = failingReadWriter
    THEN [n |-> 0, err |-> ErrFailingRead, data |-> <<>>, pos |-> pos, fits |-> TRUE]
    ELSE [n |-> oc.n, err |-> oc.err, data |-> Stream(pos, oc.n),
          pos |-> (pos + oc.n) % ByteMod, fits |-> oc.n <= cap]

\* (*bufio.Reader).Read(p) with len(p) = len > 0: from the buffer if it holds
\* bytes; else the pending error; else one read of the endpoint, straight into
\* p when p is at least as large as the buffer.  called tells whether the
\* endpoint was read.
BufRead(b, len, oc, pos) ==
    IF RBuffered(b) # 0
    THEN LET k == Min(len, RBuffered(b))
         IN [b |-> [b EXCEPT !.data = Drop(b.data, k)], n |-> k, err |-> Nil,
             out |-> Take(b.data, k), pos |-> pos, called |-> FALSE, fits |-> TRUE]
    ELSE IF b.err # Nil
    THEN [b |-> [b EXCEPT !.err = Nil], n |-> 0, err |-> b.err,
          out |-> <<>>, pos |-> pos, called |-> FALSE, fits |-> TRUE]
    ELSE IF len >= b.size
    THEN LET r == EndpointRead(b.rd, len, oc, pos)
         IN [b |-> b, n |-> r.n, err |-> r.err,
             out |-> r.data, pos |-> r.pos, called |-> TRUE, fits |-> r.fits]
    ELSE LET r == EndpointRead(b.rd, b.size, oc, pos)
             k == Min(len, r.n)
         IN IF r.n = 0
            THEN [b |-> b, n |-> 0, err |-> r.err,
                  out |-> <<>>, pos |-> r.pos, called |-> TRUE, fits |-> r.fits]
            ELSE [b |-> [b EXCEPT !.data = Drop(r.data, k), !.err = r.err],
                  n |-> k, err |-> Nil,
                  out |-> Take(r.data, k), pos |-> r.pos, called |-> TRUE, fits |-> r.fits]

\* ------------------------------------------------------ DynamicBufReader

\* The reader's view of the state, as the record Read, grow and shrink work
\* on, with what the call has done so far: the endpoint reads it made (calls:
\* the slot and the deadline at the read, and what the source returned),
\* the times it shrank and called itself again (retries), and its results.
RState == [heap |-> rbufs, pools |-> readerPools, buf |-> dbr.buf,
           poolIdx |-> dbr.poolIdx, got |-> NewBuf, ok |-> TRUE, moved |-> FALSE,
           reused |-> FALSE, pending |-> FALSE,
           armed |-> armed, pos |-> srcPos, calls |-> <<>>, retries |-> 0,
           n |-> 0, err |-> Nil, out |-> <<>>]

\* What the pool may do in the migrations of one Read: c = <<drop, k>>, whether
\* Put drops the buffer, and which of the slot's idle buffers Get hands out:
\* the k-th in address order, or a new one if k = 0 or the slot has fewer
\* (reused tells whether an idle one was handed out).
NoRChoice == <<FALSE, 0>>

\* The k that stands for no Get yet: other wrappers run between the Put and
\* the Get of the migration.
RLater == -1

RPoolChoices == BOOLEAN \X (0..MaxFree)

\* The k-th smallest of a set of addresses <<slot, i>> of one slot.
KthIdle(S, k) == CHOOSE a \in S : Cardinality({b \in S : b[2] < a[2]}) = k - 1

\* Put the current buffer back to slot poolIdx and take one from slot j.
RMigrate(st, j, c) ==
    LET s1 == [st EXCEPT !.heap[st.buf] = ReaderReset(@, failingReadWriter)]
        s2 == PoolPut(s1, st.poolIdx, st.buf, c[1])
        s3 == [s2 EXCEPT !.poolIdx = j]
        g == IF c[2] >= 1 /\ c[2] <= Cardinality(s3.pools[j])
             THEN KthIdle(s3.pools[j], c[2]) ELSE NewBuf
    IN IF st.pending THEN [st EXCEPT !.ok = FALSE]
       ELSE IF c[2] = RLater THEN [s3 EXCEPT !.moved = TRUE, !.pending = TRUE]
       ELSE
       Val({[s4 EXCEPT !.buf = s4.got, !.moved = TRUE,
                       !.reused = @ \/ g # NewBuf,
                       !.heap[s4.got] = ReaderReset(@, TheSource)] :
            s4 \in {PoolGet(s3, j, g, NewReaderSize(sizes[j]))}})

\* (*DynamicBufReader).grow
Rgrow(st, c) ==
    IF st.poolIdx < maxIdx THEN RMigrate(st, st.poolIdx + 1, c) ELSE st

\* A shrink that leaves the reader where it is.
RshrinkNever(st, c) == st

\* (*DynamicBufReader).shrink
Rshrink(st, c) ==
    IF st.poolIdx # 0 THEN RMigrate(st, st.poolIdx - 1, c) ELSE st

\* A Read that sets the deadline above slot 0 and never clears it.
SetReadDeadlineNeverCleared(st) ==
    IF isConn THEN [st EXCEPT !.armed = @ \/ (st.poolIdx # 0)] ELSE st

\* The deadline Read sets on a net.Conn before anything else: armed above
\* slot 0, cleared at slot 0.  Another source has none.
SetReadDeadline(st) ==
    IF isConn THEN [st EXCEPT !.armed = (st.poolIdx # 0)] ELSE st

\* A connection reports the deadline's expiry only while a deadline is set;
\* any other source may return that error at any time.
SourceCan(st, oc) ==
    oc.err = ErrDeadlineExceeded => (isConn => st.armed)

\* Read's sizing rule after the inner read: n + Buffered() against Size()
ReadShouldGrow(total, size) == total >= size

ReadShouldShrink(total, size) == total < size \div 2

\* A Read without the fast path.
FastPathNever(b) == FALSE

\* Read's test for the fast path: bytes are buffered, so the inner read
\* cannot reach the source.
FastPath(b) == RBuffered(b) # 0

\* Read after the inner read r made in state s0 (the deadline set): the
\* fast path's return, the retry after a deadline expiry, or the sizing rule.
RECURSIVE ReadRec(_, _, _, _)
ReadAfter(s0, r, len, ocs, c) ==
    LET s1 == [s0 EXCEPT !.heap[s0.buf] = r.b, !.pos = r.pos,
                         !.n = r.n, !.err = r.err, !.out = r.out]
        s2 == IF r.called
              THEN [s1 EXCEPT
                      !.ok = @ /\ r.fits /\ SourceCan(s0, Head(ocs)),
                      !.calls = Append(@, [idx |-> s0.poolIdx, armed |-> s0.armed,
                                           n |-> Head(ocs).n,
                                           err |-> Head(ocs).err])]
              ELSE s1
        total == r.n + RBuffered(r.b)
        size == r.b.size
    IN IF FastPath(s0.heap[s0.buf]) THEN s1
       ELSE IF r.err = ErrDeadlineExceeded
       THEN IF Len(ocs) = 1 THEN [s2 EXCEPT !.ok = FALSE]
            ELSE Val({ReadRec([s3 EXCEPT !.retries = @ + 1], len, Tail(ocs), c) :
                      s3 \in {Rshrink(s2, c)}})
       ELSE IF ReadShouldGrow(total, size) THEN Rgrow(s2, c)
       ELSE IF ReadShouldShrink(total, size) THEN Rshrink(s2, c)
       ELSE s2

\* (*DynamicBufReader).Read(p), len(p) = len; ocs is what the source does at
\* each of the endpoint reads the call makes.
ReadRec(st, len, ocs, c) ==
    Val({Val({ReadAfter(s0, r, len, ocs, c) :
              r \in {BufRead(s0.heap[s0.buf], len, Head(ocs), s0.pos)}}) :
         s0 \in {SetReadDeadline(st)}})

\* What the source may do at the last endpoint read of a call: deliver bytes,
\* fail, or deliver its last bytes together with EOF.
FinalOutcomes ==
    {[n |-> k, err |-> Nil] : k \in Fills}
        \cup {[n |-> 0, err |-> e] : e \in {EOF, ErrSource}}
        \cup {[n |-> 8, err |-> EOF]}

\* A call that never reads the endpoint is given this outcome.
Unused == [n |-> 0, err |-> EOF]

Expired == [n |-> 0, err |-> ErrDeadlineExceeded]

\* (*DynamicBufReader).Read(p): the source reports nd deadline expiries, then
\* fin (st.ok tells whether the source can: a connection reports an expiry
\* only while its deadline is set).  A Read served from the buffer asks
\* nothing of the source or the pool.
Read(len, nd, fin, c) ==
    LET ocs == [i \in 1..(nd + 1) |-> IF i <= nd THEN Expired ELSE fin]
    IN /\ RBuffered(rbufs[dbr.buf]) # 0 => nd = 0 /\ fin = Unused /\ c = NoRChoice
       /\ \E st \in {ReadRec(RState, len, ocs, c)} :
          /\ st.ok
          /\ \/ Len(st.calls) = nd + 1
             \/ Len(st.calls) = 0 /\ nd = 0 /\ fin = Unused
          /\ st.moved \/ c = NoRChoice
          /\ st.reused \/ st.pending \/ c[2] = 0
          /\ rpc' = IF st.pending THEN "get" ELSE "idle"
          /\ rbufs' = st.heap
          /\ readerPools' = st.pools
          /\ dbr' = [buf |-> st.buf, poolIdx |-> st.poolIdx]
          /\ srcPos' = st.pos
          /\ armed' = st.armed
          /\ lastR' = [op |-> "Read", len |-> len, n |-> st.n, err |-> st.err,
                       out |-> st.out, idx0 |-> dbr.poolIdx,
                       retries |-> st.retries, calls |-> st.calls]
       /\ UNCHANGED <<ivars, pvars, wvars, svars, isConn>>

\* The second half of a grow or shrink that other wrappers ran in the middle
\* of: dbr.buf = readerPools[dbr.poolIdx].Get(); dbr.buf.Reset(dbr.r)
RMigrateGet(g) ==
    /\ rpc = "get"
    /\ g \in GetChoices(RState, dbr.poolIdx)
    /\ \E s4 \in {PoolGet(RState, dbr.poolIdx, g, NewReaderSize(sizes[dbr.poolIdx]))} :
          /\ rbufs' = [s4.heap EXCEPT ![s4.got] = ReaderReset(@, TheSource)]
          /\ readerPools' = s4.pools
          /\ dbr' = [buf |-> s4.got, poolIdx |-> dbr.poolIdx]
    /\ rpc' = "idle"
    /\ UNCHANGED <<ivars, pvars, wvars, svars, srcPos, isConn, armed, lastR>>

\* NewPool(minSize, maxSize)
PoolOf(sz) == [i \in 0..(Len(sz) - 1) |-> sz[i + 1]]

PoolInit(minSize, maxSize) ==
    /\ poolArgs = <<minSize, maxSize>>
    /\ built = "yes"
    /\ sizes = PoolOf(NewPoolSizes(minSize, maxSize))
    /\ maxIdx = Len(NewPoolSizes(minSize, maxSize)) - 1
    /\ writerPools = [i \in 0..maxIdx |-> {}]
    /\ readerPools = [i \in 0..maxIdx |-> {}]

\* pool.NewWriteBuffer(w) on the new pool: slot 0 is empty, so Get calls New
WriterInit(sz, kind) ==
    /\ wbufs = [a \in Addrs |->
                  IF a = <<0, 1>> THEN WriterReset(NewWriterSize(sz[1]), TheSink)
                  ELSE NoBuf]
    /\ dbw = [buf |-> <<0, 1>>, poolIdx |-> 0]
    /\ sink = <<>>
    /\ sinkKind = kind
    /\ fails = 0
    /\ accepted = <<>>
    /\ lastW = [op |-> "none", len |-> 0, n |-> 0, err |-> Nil, idx0 |-> 0, win |-> 0]
    /\ wpc = "idle"

\* No writer has been asked of the pool.
NoWriter ==
    /\ wbufs = [a \in Addrs |-> NoBuf]
    /\ dbw = [buf |-> NewBuf, poolIdx |-> 0]
    /\ sink = <<>>
    /\ sinkKind = "mem"
    /\ fails = 0
    /\ accepted = <<>>
    /\ lastW = [op |-> "none", len |-> 0, n |-> 0, err |-> Nil, idx0 |-> 0, win |-> 0]
    /\ wpc = "idle"

\* pool.NewReaderBuffer(r) on the new pool
ReaderInit(sz, conn) ==
    /\ rbufs = [a \in Addrs |->
                  IF a = <<0, 1>> THEN ReaderReset(NewReaderSize(sz[1]), TheSource)
                  ELSE NoBuf]
    /\ dbr = [buf |-> <<0, 1>>, poolIdx |-> 0]
    /\ srcPos = 0
    /\ isConn = conn
    /\ armed = FALSE
    /\ lastR = [op |-> "none", len |-> 0, n |-> 0, err |-> Nil, out |-> <<>>,
                idx0 |-> 0, retries |-> 0, calls |-> <<>>]
    /\ rpc = "idle"

\* No reader has been asked of the pool.
NoReader ==
    /\ rbufs = [a \in Addrs |-> NoBuf]
    /\ dbr = [buf |-> NewBuf, poolIdx |-> 0]
    /\ srcPos = 0
    /\ isConn = FALSE
    /\ armed = FALSE
    /\ lastR = [op |-> "none", len |-> 0, n |-> 0, err |-> Nil, out |-> <<>>,
                idx0 |-> 0, retries |-> 0, calls |-> <<>>]
    /\ rpc = "idle"

\* An error as the chain errors.Unwrap walks, outermost link first: "ioError"
\* is a value of type ioError, "wrapError" any other wrapping error, and the
\* last link the error at the bottom.  The nil error is the empty chain.
NilError == <<>>

\* No ioErrorWrappingWriter has been called.
NoIO ==
    ioLast = [op |-> "none", len |-> 0, inner |-> [n |-> 0, err |-> NilError],
              n |-> 0, err |-> NilError]

\* The pool has one wrapper.
Alone ==
    /\ cur = 1
    /\ parked = <<>>
    /\ NoIO

Init ==
    \E args \in PoolArgs, kind \in {"mem", "flaky"} :
        /\ PoolInit(args[1], args[2])
        /\ WriterInit(NewPoolSizes(args[1], args[2]), kind)
        /\ NoReader
        /\ Alone

Next ==
    \/ \E len \in 0..MaxLen, oc \in Outcomes, c \in PoolChoices : Write(len, oc, c)
    \/ \E oc \in {o \in Outcomes : o[1] # 2}, c \in PoolChoices : Flush(oc, c)

\* One writer on a new pool.
Spec == Init /\ [][Next]_vars

InitR ==
    \E args \in RPoolArgs, conn \in BOOLEAN :
        /\ PoolInit(args[1], args[2])
        /\ NoWriter
        /\ ReaderInit(NewPoolSizes(args[1], args[2]), conn)
        /\ Alone

NextR ==
    \E len \in PLens, nd \in 0..MaxChain, fin \in FinalOutcomes, c \in RPoolChoices :
        Read(len, nd, fin, c)

\* One reader on a new pool.
SpecR == InitR /\ [][NextR]_vars

\* ------------------------------------------- wrappers that share a pool

\* The fields of the wrapper the variables show.
Private ==
    [dbw |-> dbw, sink |-> sink, sinkKind |-> sinkKind, fails |-> fails,
     accepted |-> accepted, lastW |-> lastW, wpc |-> wpc,
     dbr |-> dbr, srcPos |-> srcPos, isConn |-> isConn, armed |-> armed,
     lastR |-> lastR, rpc |-> rpc]

\* A wrapper the program has not asked of the pool yet.
Absent ==
    [dbw |-> [buf |-> NewBuf, poolIdx |-> 0], sink |-> <<>>, sinkKind |-> "mem",
     fails |-> 0, accepted |-> <<>>,
     lastW |-> [op |-> "none", len |-> 0, n |-> 0, err |-> Nil, idx0 |-> 0, win |-> 0],
     wpc |-> "idle",
     dbr |-> [buf |-> NewBuf, poolIdx |-> 0], srcPos |-> 0, isConn |-> FALSE,
     armed |-> FALSE,
     lastR |-> [op |-> "none", len |-> 0, n |-> 0, err |-> Nil, out |-> <<>>,
                idx0 |-> 0, retries |-> 0, calls |-> <<>>],
     rpc |-> "idle"]

\* The goroutine of wrapper w runs next: the variables show w's fields.
Switch(w) ==
    /\ w \in DOMAIN parked
    /\ cur' = w
    /\ parked' = [x \in (DOMAIN parked \ {w}) \cup {cur} |->
                    IF x = cur THEN Private ELSE parked[x]]
    /\ dbw' = parked[w].dbw
    /\ sink' = parked[w].sink
    /\ sinkKind' = parked[w].sinkKind
    /\ fails' = parked[w].fails
    /\ accepted' = parked[w].accepted
    /\ lastW' = parked[w].lastW
    /\ wpc' = parked[w].wpc
    /\ dbr' = parked[w].dbr
    /\ srcPos' = parked[w].srcPos
    /\ isConn' = parked[w].isConn
    /\ armed' = parked[w].armed
    /\ lastR' = parked[w].lastR
    /\ rpc' = parked[w].rpc
    /\ UNCHANGED <<ivars, pvars, writerPools, wbufs, readerPools, rbufs>>

\* pool.NewWriteBuffer(w) on a pool in use
NewWriteBuffer(g) ==
    /\ dbw.buf = NewBuf /\ dbr.buf = NewBuf
    /\ g \in GetChoices(WState, 0)
    /\ \E s4 \in {PoolGet(WState, 0, g, NewWriterSize(sizes[0]))} :
          /\ wbufs' = [s4.heap EXCEPT ![s4.got] = WriterReset(@, TheSink)]
          /\ writerPools' = s4.pools
          /\ dbw' = [buf |-> s4.got, poolIdx |-> 0]
    /\ lastW' = [op |-> "NewWriteBuffer", len |-> 0, n |-> 0, err |-> Nil,
                 idx0 |-> 0, win |-> 0]
    /\ UNCHANGED <<ivars, pvars, rvars, svars, sink, sinkKind, fails, accepted, wpc>>

\* pool.NewReaderBuffer(r) on a pool in use
NewReaderBuffer(g, conn) ==
    /\ dbw.buf = NewBuf /\ dbr.buf = NewBuf
    /\ g \in GetChoices(RState, 0)
    /\ \E s4 \in {PoolGet(RState, 0, g, NewReaderSize(sizes[0]))} :
          /\ rbufs' = [s4.heap EXCEPT ![s4.got] = ReaderReset(@, TheSource)]
          /\ readerPools' = s4.pools
          /\ dbr' = [buf |-> s4.got, poolIdx |-> 0]
    /\ isConn' = conn
    /\ lastR' = [lastR EXCEPT !.op = "NewReaderBuffer"]
    /\ UNCHANGED <<ivars, pvars, wvars, svars, srcPos, armed, rpc>>

\* (minSize, maxSize) of the pools readers share: two-slot ladders, one that
\* starts below the minimum size of a bufio.Reader and one that starts at it.
SharedRPoolArgs == {<<8, 16>>, <<16, 32>>}

\* The runs of wrappers that share a pool: the first wrapper is made on the
\* new pool (of writers on ladder 1, 2, of readers on the ladders of
\* SharedRPoolArgs), the others later.  The wrappers of a run are all writers or all
\* readers: writers and readers use different free lists and never meet.
InitShared ==
    /\ \/ /\ PoolInit(1, 2)
          /\ WriterInit(NewPoolSizes(1, 2), "mem")
          /\ NoReader
       \/ \E args \in SharedRPoolArgs :
             /\ PoolInit(args[1], args[2])
             /\ NoWriter
             /\ ReaderInit(NewPoolSizes(args[1], args[2]), TRUE)
    /\ cur = 1
    /\ parked = [w \in Wrappers \ {1} |-> Absent]
    /\ NoIO

\* The fills of the sources of readers that share a pool: whole periods of
\* the stream, one that makes a reader shrink and one that makes it grow.
SmallFill == ByteMod

BigFill == 6 * ByteMod

\* len(p) of the Writes of writers that share a pool: larger than the smallest
\* buffer of ladder 1, 2, so that Write and Flush both grow and shrink.
SharedLens == {2}

WritersRun == dbw.buf # NewBuf \/ \E w \in DOMAIN parked : parked[w].dbw.buf # NewBuf

\* Write, Flush and Read as a wrapper calls them while others use the pool:
\* the choices of the pool include Later and RLater.  A writer writes up to
\* maxData bytes, len(p) in lens at a time.
SharedSteps(lens, maxData) ==
    \/ \E w \in Wrappers : Switch(w)
    \/ \E g \in Addrs \cup {NewBuf} : WritersRun /\ NewWriteBuffer(g)
    \/ \E g \in Addrs \cup {NewBuf} : ~WritersRun /\ NewReaderBuffer(g, TRUE)
    \/ \E len \in lens, c \in PoolChoices \cup (BOOLEAN \X {Later}) :
          /\ dbw.buf # NewBuf /\ wpc = "idle" /\ Len(accepted) + len <= maxData
          /\ Write(len, NoFail, c)
    \/ \E c \in PoolChoices \cup (BOOLEAN \X {Later}) :
          dbw.buf # NewBuf /\ wpc = "idle" /\ Flush(NoFail, c)
    \/ \E g \in Addrs \cup {NewBuf} : WMigrateGet(g)
    \/ \E fin \in {[n |-> k, err |-> Nil] : k \in {SmallFill, BigFill}},
          c \in BOOLEAN \X (RLater..MaxFree) :
          dbr.buf # NewBuf /\ rpc = "idle" /\ Read(BigFill, 0, fin, c)
    \/ \E g \in Addrs \cup {NewBuf} : RMigrateGet(g)

NextShared == SharedSteps(SharedLens, MaxData)

\* Two wrappers on one pool.
SpecShared == InitShared /\ [][NextShared]_vars

\* The bytes a writer writes in the runs where writers write byte by byte.
SharedData == 3

\* Writers that write one byte at a time: a Write grows with a byte in the
\* buffer, so buffers with bytes in them go back to the pool.
NextSharedBytes == SharedSteps({1}, SharedData)

\* Two wrappers on one pool, the writers writing byte by byte.
SpecSharedBytes == InitShared /\ [][NextSharedBytes]_vars

\* The connection of the writer closes.  DynamicBufWriter has Buffered, Size,
\* Write, Flush, grow and shrink and nothing else: the writer is let go as it is.
CloseWriter ==
    /\ dbw.buf # NewBuf /\ wpc = "idle"
    /\ wpc' = "closed"
    /\ UNCHANGED <<ivars, pvars, rvars, svars, writerPools, wbufs, dbw, sink, sinkKind,
                   fails, accepted, lastW>>

\* The connection of the reader closes.  DynamicBufReader has Read, grow and
\* shrink and nothing else.
CloseReader ==
    /\ dbr.buf # NewBuf /\ rpc = "idle"
    /\ rpc' = "closed"
    /\ UNCHANGED <<ivars, pvars, wvars, svars, readerPools, rbufs, dbr, srcPos, isConn,
                   armed, lastR>>

NextClosing ==
    \/ NextShared
    \/ CloseWriter
    \/ CloseReader

\* Two wrappers on one pool, until their connections close.
SpecClosing == InitShared /\ [][NextClosing]_vars

InitWR == Init \/ InitR

NextWR ==
    \/ dbw.buf # NewBuf /\ Next
    \/ dbr.buf # NewBuf /\ NextR

\* One wrapper on a new pool, a writer or a reader.
SpecWR == InitWR /\ [][NextWR]_vars

\* ------------------------------------------------ ioErrorWrappingWriter

\* Wrapping errors around the errors the wrapped writer returns.
MaxWraps == 1

\* The errors at the bottom of a chain: those of a sink and of the stub.
BaseErrors == {ErrSink, ErrFailingWrite}

RECURSIVE ChainsOf(_)
ChainsOf(k) ==
    IF k = 0 THEN {<<e>> : e \in BaseErrors}
    ELSE ChainsOf(k - 1) \cup
         {<<l>> \o c : l \in {"ioError", "wrapError"}, c \in ChainsOf(k - 1)}

\* What a writer behind the interface can return as err.
WriterErrors == ChainsOf(MaxWraps) \cup {NilError}

\* errors.Unwrap: the error a wrapping error holds, nil for the others
Unwrap(err) == IF Len(err) > 1 THEN Tail(err) ELSE NilError

\* ioError{error: err}
IoError(err) == <<"ioError">> \o err

\* errors.As(err, &ioError{}): some error of the chain has type ioError
RECURSIVE AsIoError(_)
AsIoError(err) ==
    IF err = NilError THEN FALSE
    ELSE IF Head(err) = "ioError" THEN TRUE
    ELSE AsIoError(Unwrap(err))

isIOError(err) == AsIoError(err)

\* A wrapper that hands errors on as they are.
TaggedNever(err) == err

\* if err != nil { err = ioError{error: err} }
Tagged(err) == IF err # NilError THEN IoError(err) ELSE err

\* ioErrorWrappingWriter.Write(p), len(p) = len, over a writer that returns (n, err)
IOWrite(len, n, err) ==
    /\ ioLast' = [op |-> "Write", len |-> len, inner |-> [n |-> n, err |-> err],
                  n |-> n, err |-> Tagged(err)]
    /\ UNCHANGED <<pvars, wvars, rvars, svars>>

\* ioErrorWrappingWriter.Flush() over a writer that returns err
IOFlush(err) ==
    /\ ioLast' = [op |-> "Flush", len |-> 0, inner |-> [n |-> 0, err |-> err],
                  n |-> 0, err |-> Tagged(err)]
    /\ UNCHANGED <<pvars, wvars, rvars, svars>>

\* An ioErrorWrappingWriter over some writer; no pool is involved.
InitIO ==
    /\ poolArgs = <<0, 0>>
    /\ built = "no"
    /\ sizes = <<>>
    /\ maxIdx = 0
    /\ writerPools = <<>>
    /\ readerPools = <<>>
    /\ NoWriter
    /\ NoReader
    /\ Alone

NextIO ==
    \/ \E len \in 0..MaxLen, n \in 0..MaxLen, err \in WriterErrors :
          n <= len /\ IOWrite(len, n, err)
    \/ \E err \in WriterErrors : IOFlush(err)

\* The calls of one ioErrorWrappingWriter.
SpecIO == InitIO /\ [][NextIO]_vars

\* ------------------------------------------------------- NewPool as a call

\* The arguments NewPool is called with: non-positive, small, around the
\* default minimum, and up to the largest int.
NewPoolMinSizes == {-3, 0, 1, 2, 3, 4, 5, 10, 100, 1000, 1024, 1025}

NewPoolMaxSizes == {-1, 0, 1, 2, 3, 4, 8, 10, 32, 1000, 1024, 1025, MaxInt}

\* A call of NewPool(minSize, maxSize) that has not run yet.
InitPool ==
    /\ poolArgs \in NewPoolMinSizes \X NewPoolMaxSizes
    /\ built = "no"
    /\ sizes = <<>>
    /\ maxIdx = 0
    /\ writerPools = <<>>
    /\ readerPools = <<>>
    /\ NoWriter
    /\ NoReader
    /\ Alone

\* NewPool(minSize, maxSize) runs: it returns the pool, or its loop never ends.
NewPool ==
    /\ built = "no"
    /\ IF NewPoolHangs(poolArgs[1], poolArgs[2])
       THEN /\ built' = "never"
            /\ UNCHANGED <<sizes, maxIdx, writerPools, readerPools>>
       ELSE /\ built' = "yes"
            /\ sizes' = PoolOf(NewPoolSizes(poolArgs[1], poolArgs[2]))
            /\ maxIdx' = Len(NewPoolSizes(poolArgs[1], poolArgs[2])) - 1
            /\ writerPools' = [i \in 0..maxIdx' |-> {}]
            /\ readerPools' = [i \in 0..maxIdx' |-> {}]
    /\ UNCHANGED <<ivars, poolArgs, wbufs, dbw, sink, sinkKind, fails, accepted, lastW, wpc,
                   rbufs, dbr, srcPos, isConn, armed, lastR, rpc, svars>>

NextPool == NewPool

\* One call of NewPool.
SpecPool == InitPool /\ [][NextPool]_vars

\* ------------------------------------------------------------------ claims

Inner == wbufs[dbw.buf]

\* C1: over an in-memory sink that never fails, the bytes the sink holds
\* followed by the bytes the inner buffer holds are exactly the bytes Write
\* has accepted so far, in order (so a Flush leaves exactly D on the sink).
C1_RoundTrip ==
    sinkKind = "mem" => sink \o Inner.buf = accepted

\* C2: a Write(p) moves idx up one slot exactly when len(p) > Available() at
\* the start of the call and idx < maxIdx, Size() is then the ladder's size
\* of the new slot, and otherwise idx and Size() stay as they were.
C2_WriteGrowRule ==
    [][lastW'.op = "Write" =>
          LET grows == lastW'.len > Available(Inner) /\ dbw.poolIdx < maxIdx
          IN /\ dbw'.poolIdx = IF grows THEN dbw.poolIdx + 1 ELSE dbw.poolIdx
             /\ wbufs'[dbw'.buf].size =
                    IF grows THEN sizes[dbw.poolIdx + 1] ELSE Inner.size]_vars

\* C2's case: a Write that has just moved the writer up one slot.
C2_Witness ==
    lastW.op = "Write" /\ lastW.err = Nil /\ dbw.poolIdx = lastW.idx0 + 1

\* C3: a Flush that succeeds, with b = Buffered() and c = Size() before it,
\* moves idx up one slot if b = c and idx < maxIdx, else down one slot
\* (not below 0) if b < c/2, and else leaves idx as it was.
C3_FlushMigrationRule ==
    [][lastW'.op = "Flush" /\ lastW'.err = Nil =>
          LET b == Buffered(Inner)
              c == Inner.size
              i == dbw.poolIdx
          IN dbw'.poolIdx =
                 IF b = c /\ i < maxIdx THEN i + 1
                 ELSE IF b < c \div 2 THEN (IF i = 0 THEN 0 ELSE i - 1)
                 ELSE i]_vars

\* C3's case: a successful Flush that has just moved the writer down a slot.
C3_Witness ==
    lastW.op = "Flush" /\ lastW.err = Nil /\ dbw.poolIdx = lastW.idx0 - 1

\* C4: a Write whose inner write returned an error leaves the writer at the
\* slot it was at (no grow) and returns the sink's error.
C4_NoGrowOnWriteError ==
    lastW.op = "Write" /\ lastW.err # Nil =>
        dbw.poolIdx = lastW.idx0 /\ lastW.err = ErrSink

\* C5: a Flush whose inner flush returned an error returns it and migrates
\* nothing: idx, the inner buffer object and every free list stay as they were.
C5_NoMigrationOnFlushError ==
    [][lastW'.op = "Flush" /\ lastW'.err # Nil =>
          /\ dbw' = dbw
          /\ writerPools' = writerPools
          /\ lastW'.err = ErrSink]_vars

\* C5's case: a failed Flush of a full buffer below the top slot, where a
\* successful Flush would have grown.
C5_Witness ==
    /\ lastW.op = "Flush" /\ lastW.err # Nil
    /\ Buffered(Inner) = Inner.size /\ dbw.poolIdx < maxIdx

\* The last read of the source that the last Read made.
LastCall == lastR.calls[Len(lastR.calls)]

\* C6: a Read whose read of the source returns no bytes and an error other
\* than the deadline's expiry (end of stream included) returns that error
\* and leaves the reader at the slot it was at when it read the source.
C6_ErrorNoMigration ==
    lastR.op = "Read" /\ Len(lastR.calls) > 0
        /\ LastCall.n = 0 /\ LastCall.err \notin {Nil, ErrDeadlineExceeded}
    => lastR.err = LastCall.err /\ dbr.poolIdx = LastCall.idx

\* C7: one Write or Flush moves the writer by at most one slot, and one
\* Read, its retries included, moves the reader by at most one slot.
C7_StepAtMostOne ==
    /\ lastW.op \in {"Write", "Flush"} =>
           dbw.poolIdx - lastW.idx0 \in {-1, 0, 1}
    /\ lastR.op = "Read" =>
           dbr.poolIdx - lastR.idx0 \in {-1, 0, 1}

\* C8: on a connection, a Read shrinks and retries at most once: a second
\* expiry of the deadline is returned to the caller.
C8_RetryOnce ==
    isConn /\ lastR.op = "Read" =>
        /\ lastR.retries <= 1
        /\ \A i \in 1..Len(lastR.calls) :
              i > 1 /\ lastR.calls[i].err = ErrDeadlineExceeded =>
                  i = Len(lastR.calls) /\ lastR.err = ErrDeadlineExceeded

\* C9: on a source that is not a connection no Read shrinks and retries:
\* the error of its one read of the source is what Read returns.
C9_NoIdlePolicyWithoutDeadline ==
    ~isConn /\ lastR.op = "Read" =>
        /\ lastR.retries = 0
        /\ Len(lastR.calls) > 0 /\ LastCall.n = 0 => lastR.err = LastCall.err

\* C10: a Read that starts with an empty buffer and whose read of the source
\* does not expire moves by the sizing rule on total = the bytes of the fill
\* and c = Size(): up if total >= c, down if total < c/2, else not at all;
\* and a 1-byte fill that leaves the reader at slot 0 leaves it with Size()
\* equal to the smallest capacity of the ladder (4 on ladder 4..32).
C10_ReadSizingRule ==
    [][lastR'.op = "Read" /\ RBuffered(rbufs[dbr.buf]) = 0
          /\ lastR'.retries = 0 /\ Len(lastR'.calls) = 1
       => LET c == rbufs[dbr.buf].size
              total == lastR'.calls[1].n
              i == dbr.poolIdx
          IN /\ dbr'.poolIdx =
                   IF total >= c THEN (IF i < maxIdx THEN i + 1 ELSE i)
                   ELSE IF total < c \div 2 THEN (IF i = 0 THEN 0 ELSE i - 1)
                   ELSE i
             /\ total = 1 /\ dbr'.poolIdx = 0 =>
                   rbufs'[dbr'.buf].size = sizes[0]]_vars

\* C11: a Read that starts with bytes in the buffer is served from the
\* buffer: it reads nothing from the source, hands out the first buffered
\* bytes, and leaves the slot, the buffer object, its size and the free
\* lists as they were.
C11_FastPath ==
    [][lastR'.op = "Read" /\ RBuffered(rbufs[dbr.buf]) > 0
       => LET b == rbufs[dbr.buf]
              k == Min(lastR'.len, RBuffered(b))
          IN /\ Len(lastR'.calls) = 0
             /\ srcPos' = srcPos
             /\ lastR'.n = k /\ lastR'.err = Nil /\ lastR'.out = Take(b.data, k)
             /\ dbr' = dbr
             /\ readerPools' = readerPools
             /\ rbufs' = [rbufs EXCEPT ![dbr.buf].data = Drop(b.data, k)]]_vars

C11_Witness ==
    /\ lastR.op = "Read" /\ Len(lastR.calls) = 0 /\ lastR.n > 0
    /\ RBuffered(rbufs[dbr.buf]) > 0

\* C12: on a connection, every read of the source that Read makes, a
\* retry's included, is made with the read deadline set if and only if the
\* reader is above slot 0 at that moment.
C12_DeadlinePolicy ==
    isConn /\ lastR.op = "Read" =>
        \A i \in 1..Len(lastR.calls) :
            lastR.calls[i].armed = (lastR.calls[i].idx > 0)

C12_Witness ==
    /\ isConn /\ lastR.op = "Read" /\ Len(lastR.calls) = 2
    /\ lastR.calls[1].idx = 1 /\ lastR.calls[1].armed
    /\ lastR.calls[2].idx = 0 /\ ~lastR.calls[2].armed

IdleWriters ==
    (IF dbw.buf # NewBuf /\ wpc = "idle" THEN {<<cur, dbw.buf>>} ELSE {})
        \cup {<<w, parked[w].dbw.buf>> : w \in
                 {x \in DOMAIN parked : parked[x].dbw.buf # NewBuf
                                          /\ parked[x].wpc = "idle"}}

IdleReaders ==
    (IF dbr.buf # NewBuf /\ rpc = "idle" THEN {<<cur, dbr.buf>>} ELSE {})
        \cup {<<w, parked[w].dbr.buf>> : w \in
                 {x \in DOMAIN parked : parked[x].dbr.buf # NewBuf
                                          /\ parked[x].rpc = "idle"}}

\* C14: between its calls every wrapper holds one buffer, a buffer object
\* that exists and is bound to the wrapper's endpoint; no two wrappers hold
\* the same buffer; and no buffer a wrapper holds is in a free list.
C14_ExclusiveOwnership ==
    /\ \A h \in IdleWriters :
          /\ wbufs[h[2]] # NoBuf /\ wbufs[h[2]].wr = TheSink
          /\ \A i \in DOMAIN writerPools : h[2] \notin writerPools[i]
          /\ \A g \in IdleWriters : g[2] = h[2] => g[1] = h[1]
    /\ \A h \in IdleReaders :
          /\ rbufs[h[2]] # NoBuf /\ rbufs[h[2]].rd = TheSource
          /\ \A i \in DOMAIN readerPools : h[2] \notin readerPools[i]
          /\ \A g \in IdleReaders : g[2] = h[2] => g[1] = h[1]

\* A writer between calls holds the buffer that the field of the other
\* writer, which is between the Put and the Get of a migration, still names.
C14_Witness ==
    /\ wpc = "idle" /\ dbw.buf # NewBuf /\ wbufs[dbw.buf].wr = TheSink
    /\ \E w \in DOMAIN parked :
          parked[w].wpc = "get" /\ parked[w].dbw.buf = dbw.buf

\* C15: the writer and the reader are at a slot of the ladder and the
\* buffer each holds has the capacity of that slot, and every buffer in the
\* free list of slot i has the capacity of slot i.
C15_CapacityInvariant ==
    /\ dbw.buf # NewBuf =>
          /\ dbw.poolIdx \in 0..maxIdx
          /\ wbufs[dbw.buf].size = sizes[dbw.poolIdx]
    /\ dbr.buf # NewBuf =>
          /\ dbr.poolIdx \in 0..maxIdx
          /\ rbufs[dbr.buf].size = sizes[dbr.poolIdx]
    /\ \A i \in DOMAIN writerPools : \A a \in writerPools[i] :
          wbufs[a].size = sizes[i]
    /\ \A i \in DOMAIN readerPools : \A a \in readerPools[i] :
          rbufs[a].size = sizes[i]

\* C16: a grow asked for at the top slot and a shrink asked for at slot 0
\* change nothing.  A Write that does not fit at the top slot, a successful
\* Flush of a less than half full buffer at slot 0, and a Read at the top slot
\* that fills the buffer or at slot 0 that fills less than half of it leave
\* the slot, the buffer object, its binding, its size and the free lists as
\* they were, and no byte is lost: what the sink and the buffer hold after
\* the Write is what they held before followed by p, and the reader's
\* buffer holds the bytes of the fill that Read did not return.
C16_NoOpAtBoundaries ==
    [][/\ lastW'.op = "Write" /\ lastW'.len > Available(Inner)
           /\ dbw.poolIdx = maxIdx
          => /\ dbw' = dbw /\ writerPools' = writerPools
             /\ wbufs'[dbw.buf].wr = TheSink
             /\ wbufs'[dbw.buf].size = Inner.size
             /\ \A a \in Addrs \ {dbw.buf} : wbufs'[a] = wbufs[a]
             /\ lastW'.err = Nil =>
                   sink' \o wbufs'[dbw.buf].buf =
                       sink \o Inner.buf \o Drop(accepted', Len(accepted))
       /\ lastW'.op = "Flush" /\ lastW'.err = Nil /\ dbw.poolIdx = 0
           /\ Buffered(Inner) < Inner.size \div 2
          => /\ dbw' = dbw /\ writerPools' = writerPools
             /\ wbufs' = [wbufs EXCEPT ![dbw.buf].buf = <<>>]
             /\ sink' = sink \o Inner.buf
       /\ lastR'.op = "Read" /\ RBuffered(rbufs[dbr.buf]) = 0
           /\ lastR'.retries = 0 /\ Len(lastR'.calls) = 1
           /\ \/ dbr.poolIdx = maxIdx /\ lastR'.calls[1].n >= rbufs[dbr.buf].size
              \/ dbr.poolIdx = 0 /\ lastR'.calls[1].n < rbufs[dbr.buf].size \div 2
          => /\ dbr' = dbr /\ readerPools' = readerPools
             /\ rbufs'[dbr.buf].rd = TheSource
             /\ rbufs'[dbr.buf].size = rbufs[dbr.buf].size
             /\ \A a \in Addrs \ {dbr.buf} : rbufs'[a] = rbufs[a]
             /\ lastR'.out \o rbufs'[dbr.buf].data =
                   Stream(srcPos, lastR'.calls[1].n)
      ]_vars

\* A Write larger than the largest buffer, made at the top slot of a ladder
\* of several slots, has returned without error.
C16_Witness ==
    /\ lastW.op = "Write" /\ lastW.err = Nil
    /\ maxIdx > 0 /\ lastW.idx0 = maxIdx /\ dbw.poolIdx = maxIdx
    /\ lastW.len > sizes[maxIdx]

\* C17: for every (minSize, maxSize), NewPool builds the ladder n, 2n, ...,
\* n*2^m with n the capacity of slot 0 and m the least k >= 0 with
\* n*2^k >= maxSize: consecutive capacities double, the largest is >= maxSize,
\* every earlier one is < maxSize, and maxSize <= minSize gives a single slot.
C17_SizeLadder ==
    built # "no" =>
        /\ built = "yes"
        /\ DOMAIN sizes = 0..maxIdx
        /\ \A i \in 0..maxIdx : sizes[i] = sizes[0] * 2^i
        /\ sizes[0] * 2^maxIdx >= poolArgs[2]
        /\ \A k \in 0..(maxIdx - 1) : sizes[0] * 2^k < poolArgs[2]
        /\ poolArgs[2] <= poolArgs[1] => maxIdx = 0

\* C18 (as stated): slot 0 of the pool has capacity max(minSize, default); a
\* minSize below the default is raised to the default.
C18_SlotZeroIsMax ==
    built = "yes" =>
        sizes[0] = IF poolArgs[1] < minWriteBufferSize
                   THEN minWriteBufferSize ELSE poolArgs[1]

\* C18 (amended): slot 0 of the pool has capacity minSize when minSize is
\* positive, below the default or not, and the default when minSize <= 0.
C18_SlotZero ==
    built = "yes" =>
        /\ poolArgs[1] > 0 => sizes[0] = poolArgs[1]
        /\ poolArgs[1] <= 0 => sizes[0] = minWriteBufferSize

\* NewPool has returned a pool for a positive minSize below the default.
C18_Witness ==
    /\ built = "yes"
    /\ poolArgs[1] > 0 /\ poolArgs[1] < minWriteBufferSize
    /\ sizes[0] = poolArgs[1]

\* C19: right after the pool hands out a new writer or reader, whatever the
\* pool and the other wrappers have done before, the wrapper is at slot 0 and
\* its inner buffer is bound to the sink (source), holds no bytes and has the
\* capacity of the smallest slot of the pool.
C19_ColdStart ==
    /\ lastW.op = "NewWriteBuffer" =>
            /\ dbw.poolIdx = 0
            /\ wbufs[dbw.buf].wr = TheSink
            /\ Buffered(wbufs[dbw.buf]) = 0
            /\ wbufs[dbw.buf].size = sizes[0]
    /\ lastR.op = "NewReaderBuffer" =>
            /\ dbr.poolIdx = 0
            /\ rbufs[dbr.buf].rd = TheSource
            /\ RBuffered(rbufs[dbr.buf]) = 0
            /\ rbufs[dbr.buf].size = sizes[0]

\* C20: after a successful Flush that follows at least one Write, the capacity
\* of the current buffer is at most the largest len(p) of a single Write since
\* the previous Flush, capped at the largest capacity of the ladder.
C20_BoundedFootprint ==
    lastW.op = "Flush" /\ lastW.err = Nil /\ lastW.win > 0 /\ wpc = "idle" =>
        wbufs[dbw.buf].size <= Min(lastW.win, sizes[maxIdx])

\* An error that no ioErrorWrappingWriter has tagged.
Untagged(err) == err # NilError /\ \A i \in 1..Len(err) : err[i] # "ioError"

\* C21: Write and Flush of the error-tagging writer return the byte count of
\* the wrapped writer, nil exactly when it returns nil, and every other error
\* wrapped so that isIOError holds and Unwrap gives the original; isIOError is
\* false of nil and of an error that has not passed through the wrapper.
C21_ErrorTagging ==
    ioLast.op # "none" =>
        /\ ioLast.n = ioLast.inner.n
        /\ (ioLast.err = NilError) <=> (ioLast.inner.err = NilError)
        /\ ioLast.inner.err # NilError =>
               /\ isIOError(ioLast.err)
               /\ Unwrap(ioLast.err) = ioLast.inner.err
        /\ ~isIOError(NilError)
        /\ Untagged(ioLast.inner.err) => ~isIOError(ioLast.inner.err)

\* A Write that wrote part of p and failed with an error under a wrapping
\* error, tagged on the way out.
C21_Witness ==
    /\ ioLast.op = "Write"
    /\ ioLast.inner.n > 0 /\ ioLast.inner.n < ioLast.len
    /\ Untagged(ioLast.inner.err) /\ Len(ioLast.inner.err) > 1
    /\ isIOError(ioLast.err)

\* C22: once the connection of a writer or reader has closed, the buffer the
\* wrapper held is back in the pool at the wrapper's slot, reset and bound to
\* the stub, so no buffer stays checked out when all wrappers are closed.
C22_ReleaseOnClose ==
    /\ wpc = "closed" =>
            /\ wbufs[dbw.buf].wr = failingReadWriter
            /\ Buffered(wbufs[dbw.buf]) = 0
            /\ dbw.buf \in writerPools[dbw.poolIdx]
    /\ rpc = "closed" =>
            /\ rbufs[dbr.buf].rd = failingReadWriter
            /\ RBuffered(rbufs[dbr.buf]) = 0
            /\ dbr.buf \in readerPools[dbr.poolIdx]

\* The place in the source's stream of the next byte the caller has not been
\* given: what the source has delivered less what the reader still holds.
NextUnread == (srcPos - RBuffered(rbufs[dbr.buf])) % ByteMod

\* C23: the bytes Read returns are the next bytes of the source's stream, and
\* the bytes fetched from the source and not returned yet are still held after
\* the Read: a grow or shrink at its end discards none, so the bytes returned
\* over the calls are a prefix of the stream.
C23_StreamIntegrity ==
    [][/\ lastR'.out = Stream(NextUnread, Len(lastR'.out))
       /\ NextUnread' = (NextUnread + Len(lastR'.out)) % ByteMod]_vars

\* C24: on a connection, which reports the expiry of a deadline only while
\* one is set, a Read that starts at slot k shrinks and retries at most k
\* times: every retry is one slot lower than the read before it, and the
\* read at slot 0 has no deadline set.
C24_BoundedRetries ==
    isConn /\ lastR.op = "Read" =>
        /\ lastR.retries <= lastR.idx0
        /\ Len(lastR.calls) = lastR.retries + 1 \/ Len(lastR.calls) = 0
        /\ \A i \in 1..Len(lastR.calls) :
               /\ lastR.calls[i].idx = lastR.idx0 - (i - 1)
               /\ lastR.calls[i].idx = 0 => ~lastR.calls[i].armed
               /\ i <= lastR.retries <=> lastR.calls[i].err = ErrDeadlineExceeded

\* A Read on a connection that started two slots up and retried twice.
C24_Witness ==
    /\ isConn /\ lastR.op = "Read"
    /\ lastR.idx0 = MaxChain /\ lastR.retries = MaxChain

\* C25: a successful Flush that finds less than half of the buffer in use
\* (nothing buffered included) lowers the slot of the writer by exactly one,
\* and leaves a writer at slot 0 at slot 0; so k of them in a row bring a
\* writer from slot k to slot 0, where it stays.
C25_FlushDemotes ==
    [][(/\ lastW'.op = "Flush" /\ lastW'.err = Nil
        /\ 2 * Buffered(wbufs[dbw.buf]) < wbufs[dbw.buf].size)
       => /\ dbw'.poolIdx = (IF dbw.poolIdx > 0 THEN dbw.poolIdx - 1 ELSE 0)
          /\ wbufs'[dbw'.buf].size = sizes[dbw'.poolIdx]
          /\ Buffered(wbufs'[dbw'.buf]) = 0]_vars

\* A Flush that has put the last accepted byte on the sink and taken the
\* writer from slot 2 to slot 1.
C25_Witness ==
    /\ lastW.op = "Flush" /\ lastW.err = Nil
    /\ lastW.idx0 = 2 /\ dbw.poolIdx = 1
    /\ Len(sink) > 0 /\ sink[Len(sink)] = Len(accepted)

\* The writer as if it were alone on its pool: its own buffer and slot, and
\* nothing idle in the pool.
AloneState ==
    [WState EXCEPT !.pools = [i \in DOMAIN writerPools |-> {}],
                   !.heap = [a \in Addrs |-> IF a = dbw.buf THEN wbufs[a] ELSE NoBuf]]

\* What a call shows its caller and the sink: the results, the sink, the slot
\* and the inner buffer (its capacity, contents, error and binding).
ResultOf(st, n, err, snk) ==
    [n |-> n, err |-> err, sink |-> snk, poolIdx |-> st.poolIdx,
     inner |-> st.heap[st.buf]]

\* Write(p) of the writer alone, the pool making a new buffer.
AloneWrite(len) ==
    LET r == BufWrite(wbufs[dbw.buf], sink,
                      Range(Len(accepted) + 1, Len(accepted) + len), 0, <<-1, -1>>)
        st1 == [AloneState EXCEPT !.heap[dbw.buf] = r.b]
    IN ResultOf(IF WriteShouldGrow(len, wbufs[dbw.buf]) THEN Wgrow(st1, NoChoice)
                ELSE st1,
                r.n, r.err, r.sink)

\* Flush of the writer alone, the pool making a new buffer.
AloneFlush ==
    LET b == wbufs[dbw.buf]
        f == BufFlush(b, sink, -1)
        st1 == [AloneState EXCEPT !.heap[dbw.buf] = f.b]
    IN ResultOf(FlushMigrate(st1, f.err,
                             FlushShouldGrow(Buffered(b), b.size, dbw.poolIdx),
                             FlushShouldShrink(Buffered(b), b.size, dbw.poolIdx),
                             NoChoice),
                0, f.err, f.sink)

\* C26: what a writer observes and what reaches its sink depend on its own
\* calls alone.  (1) A call of the writer gives the results, sink, slot and
\* buffer it gives when the writer is alone on the pool, whatever the pool
\* hands out and whenever it does; a new writer and a writer that completes
\* a migration hold an empty buffer of their slot bound to their sink.
\* (2) Between its calls, the steps of the other writer leave its fields, its
\* sink and its buffer as they were.
C26_Independence ==
    [][/\ (cur' = cur /\ wpc = "idle" /\ lastW'.op \in {"Write", "Flush"}) =>
            \E alone \in {IF lastW'.op = "Write" THEN AloneWrite(lastW'.len)
                           ELSE AloneFlush} :
               /\ lastW'.n = alone.n /\ lastW'.err = alone.err
               /\ sink' = alone.sink
               /\ dbw'.poolIdx = alone.poolIdx
               /\ wpc' = "idle" => wbufs'[dbw'.buf] = alone.inner
       /\ (cur' = cur /\ lastW'.op = "NewWriteBuffer") =>
               /\ dbw'.poolIdx = 0 /\ sink' = <<>>
               /\ wbufs'[dbw'.buf] = WriterReset(NewWriterSize(sizes[0]), TheSink)
       /\ (cur' = cur /\ wpc = "get" /\ wpc' = "idle") =>
               /\ dbw'.poolIdx = dbw.poolIdx
               /\ wbufs'[dbw'.buf] = WriterReset(NewWriterSize(sizes[dbw.poolIdx]), TheSink)
       /\ cur' = cur =>
            \A w \in DOMAIN parked :
               /\ parked'[w] = parked[w]
               /\ (parked[w].dbw.buf # NewBuf /\ parked[w].wpc = "idle") =>
                      wbufs'[parked[w].dbw.buf] = wbufs[parked[w].dbw.buf]
       /\ cur' # cur =>
            /\ wbufs' = wbufs
            /\ parked'[cur] = Private
            /\ \A w \in DOMAIN parked \ {cur'} : parked'[w] = parked[w]]_vars

\* The first writer has grown in a Write with a byte in its buffer and put
\* that buffer back; the second writer, after calls of its own, has been
\* handed it by the shrink of a Flush.
C26_Witness ==
    /\ cur = 2 /\ lastW.op = "Flush" /\ wpc = "idle"
    /\ dbw.buf = <<0, 1>> /\ dbw.poolIdx = 0 /\ Len(accepted) >= 2
    /\ parked[1].dbw.poolIdx = 1 /\ parked[1].wpc = "idle"
    /\ Len(parked[1].accepted) = 2 /\ Len(parked[1].sink) = 1

====
